---------------------------- MODULE Spec2Model ----------------------------
(***************************************************************************)
(* The ZKNON ledger and settlement state machine.                          *)
(*                                                                         *)
(* The repository holds two implementations of the same ledger:            *)
(*   - the sqlite variant (src/unnamed/part_000): better-sqlite3, REAL     *)
(*     accumulators, synchronous handlers, a fire-and-forget settlement    *)
(*     job that pays out of the pool;                                      *)
(*   - the pg variant (src/src/server.js, src/src/db.js): node-postgres,   *)
(*     NUMERIC(36,9) accumulators, SELECT ... FOR UPDATE inside a          *)
(*     transaction, no settlement and no status column.                    *)
(* The variable "variant" says which of the two is deployed.               *)
(*                                                                         *)
(* Amounts are integers counting units of 1/NanoUnits * 1e-9 SOL.          *)
(***************************************************************************)
EXTENDS Integers, Sequences, FiniteSets, TLC

(* ------------------------------ bounds -------------------------------- *)

\* Rows the transaction log may hold.
MaxTx == 3

\* Significant bits of the binary floating point format.  SQLite REAL and
\* the JS Number are IEEE binary64 (53 bits); the model keeps the format and
\* its round-to-nearest-even rule, with a short significand.
MantBits == 3

\* Model units per 1e-9 SOL (one lamport): amounts finer than NUMERIC(36,9)
\* and finer than the 1e-9 tolerance exist.
NanoUnits == 2

\* Rows a page of the pg history holds: LIMIT 200 in the source, scaled to
\* the size of the model's log.
PageSize == 2

(* ------------------------------ inputs -------------------------------- *)

\* Values of randomBytes(..) for the identifier (sqlite variant).
Ids == {"ZKP-A", "ZKP-B"}

Wallets == {"w1", "w2"}

\* Values of generateSecretNote(): randomBytes(32).toString("hex").
SecretNotes == {"n1"}

\* Notes a withdrawal request may carry: the issued one and a wrong guess.
Notes == SecretNotes \cup {"n2"}

Recipients == {"r1"}

\* Request amounts, after Number(amount): all representable with MantBits.
DepositAmounts == {-1, 0, 1, 10}

WithdrawAmounts == {-1, 0, 1, 8}

\* Signatures the network returns from sendRawTransaction.
Sigs == {"sigA", "sigB"}

\* A request field that is absent (undefined / empty string: falsy).
Missing == ""

NULL == "NULL"

(* ------------------------------ numbers ------------------------------- *)

Abs(x) == IF x < 0 THEN -x ELSE x

\* The spacing of representable values around magnitude m.
RECURSIVE Ulp(_)
Ulp(m) == IF m < 2^MantBits THEN 1 ELSE 2 * Ulp(m \div 2)

\* Round to the nearest representable value, ties to the even significand.
FRound(x) ==
    LET m  == Abs(x)
        u  == Ulp(m)
        lo == (m \div u) * u
        r  == m - lo
        up == IF 2 * r > u \/ (2 * r = u /\ (lo \div u) % 2 = 1)
              THEN lo + u ELSE lo
    IN  IF x < 0 THEN -up ELSE up

\* a + b and a - b on REAL columns and on JS Numbers.
FAdd(a, b) == FRound(a + b)

FSub(a, b) == FRound(a - b)

\* The 1e-9 of the balance check.
Tolerance == NanoUnits

\* sha256(value): a digest, one per value.
sha256(value) == <<"sha256", value>>

(* ------------------------------ state --------------------------------- *)

VARIABLES
    variant,       \* "sqlite" | "pg": which implementation runs
    poolKeypair,   \* sqlite: whether POOL_SECRET_KEY_BASE58 was loaded
    zk_proofs,     \* sqlite: table zk_proofs, id -> row
    transactions,  \* sqlite: table transactions, row id = index
    jobs,          \* sqlite: the settlement jobs, transaction id -> the
                   \*         handler's locals the job closes over, and its pc
    pg_proofs,     \* pg: table zk_proofs, zk_proof_id -> row (committed)
    zk_transfers,  \* pg: table zk_transfers (committed), in insertion order
    client         \* pg: the requests in flight, connection -> locals

liteVars == <<poolKeypair, zk_proofs, transactions, jobs>>

pgVars == <<pg_proofs, zk_transfers, client>>

vars == <<variant, poolKeypair, zk_proofs, transactions, jobs,
          pg_proofs, zk_transfers, client>>

\* res.status(code).json({ error: msg })
Reply(code, msg) == [status |-> code, error |-> msg]

\* Connections of the pg pool that serve requests at the same time.
Clients == {"c1", "c2"}

Idle == [pc |-> "idle"]

\* Both stores start empty (CREATE TABLE IF NOT EXISTS on a fresh database).
InitTables ==
    /\ zk_proofs = <<>>
    /\ transactions = <<>>
    /\ jobs = <<>>
    /\ pg_proofs = <<>>
    /\ zk_transfers = <<>>
    /\ client = [c \in Clients |-> Idle]

\* The sqlite server starts with or without POOL_SECRET_KEY_BASE58.
InitLite ==
    /\ variant = "sqlite"
    /\ poolKeypair \in BOOLEAN
    /\ InitTables

InitPg ==
    /\ variant = "pg"
    /\ poolKeypair = FALSE
    /\ InitTables

(* ------------------------ sqlite variant: routes ----------------------- *)
(* A handler runs to completion on the event loop.  Its response is a      *)
(* function of the request and of the tables it reads; the action applies  *)
(* the writes of the path that response belongs to.                        *)

\* POST /api/zkproofs/generate: the response
GenerateResponse(walletPubkey, zkProofId, note) ==
    IF walletPubkey = Missing
    THEN Reply(400, "walletPubkey is required")
    ELSE IF zkProofId \in DOMAIN zk_proofs
    THEN Reply(500, "ID collision, retry request")
    ELSE [status |-> 200, zkProofId |-> zkProofId, note |-> note]

\* POST /api/zkproofs/generate
Generate(walletPubkey, zkProofId, note) ==
    IF GenerateResponse(walletPubkey, zkProofId, note).status = 200
    THEN /\ zk_proofs' = (zkProofId :> [wallet_pubkey |-> walletPubkey,
                                        note_hash |-> sha256(note),
                                        total |-> 0, spent |-> 0]) @@ zk_proofs
         /\ UNCHANGED <<poolKeypair, transactions, jobs>>
    ELSE UNCHANGED liteVars

\* POST /api/deposits: the response
DepositResponse(walletPubkey, zkProofId, amount, txSignature) ==
    IF walletPubkey = Missing \/ zkProofId = Missing \/ amount = 0
       \/ txSignature = Missing
    THEN Reply(400, "walletPubkey, zkProofId, amount, txSignature are required")
    ELSE IF ~(/\ zkProofId \in DOMAIN zk_proofs
              /\ zk_proofs[zkProofId].wallet_pubkey = walletPubkey)
    THEN Reply(404, "zk_proof not found for this wallet")
    ELSE IF ~(amount > 0)
    THEN Reply(400, "amount must be > 0")
    ELSE [status |-> 200, ok |-> TRUE]

\* POST /api/deposits
Deposit(walletPubkey, zkProofId, amount, txSignature) ==
    IF DepositResponse(walletPubkey, zkProofId, amount, txSignature).status = 200
    THEN /\ Len(transactions) < MaxTx
         \* tx(): both statements commit together
         /\ zk_proofs' = [zk_proofs EXCEPT ![zkProofId].total = FAdd(@, amount)]
         /\ transactions' = Append(transactions,
                [wallet_pubkey |-> walletPubkey, zk_proof_id |-> zkProofId,
                 type |-> "DEPOSIT", amount |-> amount,
                 recipient |-> "shielded_pool", tx_signature |-> txSignature,
                 status |-> "CONFIRMED"])
         /\ UNCHANGED <<poolKeypair, jobs>>
    ELSE UNCHANGED liteVars

\* const currentBalance = Number(proof.total || 0) - Number(proof.spent || 0)
CurrentBalance(proof) == FSub(proof.total, proof.spent)

\* if (amt > currentBalance + 1e-9): insufficient
Insufficient(amt, currentBalance) == amt > FAdd(currentBalance, Tolerance)

\* The response of a handler that skips the note_hash comparison.
WithdrawalsResponseNoteUnchecked(zkProofId, note, amount, recipient) ==
    IF zkProofId = Missing \/ note = Missing \/ amount = 0 \/ recipient = Missing
    THEN Reply(400, "zkProofId, note, amount, recipient are required")
    ELSE IF ~poolKeypair
    THEN Reply(500, "Withdrawals are not configured on this server.")
    ELSE IF zkProofId \notin DOMAIN zk_proofs
    THEN Reply(404, "zk_proof not found")
    ELSE IF ~(amount > 0)
    THEN Reply(400, "amount must be > 0")
    ELSE IF Insufficient(amount, CurrentBalance(zk_proofs[zkProofId]))
    THEN Reply(400, "Insufficient shielded balance")
    ELSE [status |-> 200, body |-> "PENDING", id |-> Len(transactions) + 1]

\* POST /api/withdrawals: the response
WithdrawalsResponse(zkProofId, note, amount, recipient) ==
    IF zkProofId = Missing \/ note = Missing \/ amount = 0 \/ recipient = Missing
    THEN Reply(400, "zkProofId, note, amount, recipient are required")
    ELSE IF ~poolKeypair
    THEN Reply(500, "Withdrawals are not configured on this server.")
    ELSE IF zkProofId \notin DOMAIN zk_proofs
    THEN Reply(404, "zk_proof not found")
    ELSE IF zk_proofs[zkProofId].note_hash # sha256(note)
    THEN Reply(403, "Invalid secret_note for this zk_proof_id")
    ELSE IF ~(amount > 0)
    THEN Reply(400, "amount must be > 0")
    ELSE IF Insufficient(amount, CurrentBalance(zk_proofs[zkProofId]))
    THEN Reply(400, "Insufficient shielded balance")
    ELSE [status |-> 200, body |-> "PENDING", id |-> Len(transactions) + 1]

\* tx(): reserve the funds and log the PENDING row, in one transaction
Reserve(zkProofId, amount, recipient) ==
    /\ zk_proofs' = [zk_proofs EXCEPT ![zkProofId].spent = FAdd(@, amount)]
    /\ transactions' = Append(transactions,
           [wallet_pubkey |-> zk_proofs[zkProofId].wallet_pubkey,
            zk_proof_id |-> zkProofId, type |-> "WITHDRAW",
            amount |-> amount, recipient |-> recipient,
            tx_signature |-> NULL, status |-> "PENDING"])

\* A handler that awaits the payout before it answers: the row is already
\* CONFIRMED with a signature when the response is sent.
WithdrawalsAwaitingPayout(zkProofId, note, amount, recipient) ==
    IF WithdrawalsResponse(zkProofId, note, amount, recipient).status = 200
    THEN /\ Len(transactions) < MaxTx
         /\ zk_proofs' = [zk_proofs EXCEPT ![zkProofId].spent = FAdd(@, amount)]
         /\ transactions' = Append(transactions,
                [wallet_pubkey |-> zk_proofs[zkProofId].wallet_pubkey,
                 zk_proof_id |-> zkProofId, type |-> "WITHDRAW",
                 amount |-> amount, recipient |-> recipient,
                 tx_signature |-> "sigA", status |-> "CONFIRMED"])
         /\ jobs' = (Len(transactions) + 1 :>
                        [zkProofId |-> zkProofId, amt |-> amount,
                         recipient |-> recipient,
                         proof |-> zk_proofs[zkProofId],
                         signature |-> "sigA",
                         pc |-> "done"]) @@ jobs
         /\ UNCHANGED poolKeypair
    ELSE UNCHANGED liteVars

\* POST /api/withdrawals: the handler up to res.json and the start of the
\* detached settlement job, which runs to its first await inside sendFromPool.
Withdrawals(zkProofId, note, amount, recipient) ==
    IF WithdrawalsResponse(zkProofId, note, amount, recipient).status = 200
    THEN /\ Len(transactions) < MaxTx
         /\ Reserve(zkProofId, amount, recipient)
         /\ jobs' = (Len(transactions) + 1 :>
                        [zkProofId |-> zkProofId, amt |-> amount,
                         recipient |-> recipient,
                         proof |-> zk_proofs[zkProofId],
                         signature |-> NULL,
                         pc |-> "sendFromPool"]) @@ jobs
         /\ UNCHANGED poolKeypair
    ELSE UNCHANGED liteVars

(* ------------------- sqlite variant: settlement job -------------------- *)

\* A catch block whose UPDATE zk_proofs has no WHERE id = ?: it releases the
\* amount on every identifier.
CompensateEveryProof(txId) ==
    /\ transactions' = [transactions EXCEPT ![txId].status = "FAILED"]
    /\ zk_proofs' = [id \in DOMAIN zk_proofs |->
                        [zk_proofs[id] EXCEPT
                            !.spent = FSub(@, jobs[txId].amt)]]

\* tx2(): the catch block of the settlement job.
Compensate(txId) ==
    /\ transactions' = [transactions EXCEPT ![txId].status = "FAILED"]
    /\ zk_proofs' = [zk_proofs EXCEPT
                       ![jobs[txId].zkProofId].spent = FSub(@, jobs[txId].amt)]

\* A catch block that also runs for a job the process lost in a crash.
SendFromPoolThrowsAfterCrash(txId) ==
    /\ txId \in DOMAIN jobs
    /\ jobs[txId].pc \in {"sendFromPool", "lost"}
    /\ Compensate(txId)
    /\ jobs' = [jobs EXCEPT ![txId].pc = "done"]
    /\ UNCHANGED poolKeypair

\* A catch block that also runs for a job whose row is already terminal.
SendFromPoolThrowsAfterEnd(txId) ==
    /\ txId \in DOMAIN jobs
    /\ jobs[txId].pc \in {"sendFromPool", "done"}
    /\ Compensate(txId)
    /\ jobs' = [jobs EXCEPT ![txId].pc = "caught"]
    /\ UNCHANGED poolKeypair

\* sendFromPool throws before a transfer was submitted (bad recipient,
\* getLatestBlockhash or sendRawTransaction rejected): the job's catch runs.
SendFromPoolThrows(txId) ==
    /\ txId \in DOMAIN jobs
    /\ jobs[txId].pc = "sendFromPool"
    /\ Compensate(txId)
    /\ jobs' = [jobs EXCEPT ![txId].pc = "done"]
    /\ UNCHANGED poolKeypair

\* A sendRawTransaction that submits the transfer and then never settles:
\* the job stays behind an await that neither returns nor throws.
SendRawTransactionHangs(txId, signature) ==
    /\ txId \in DOMAIN jobs
    /\ jobs[txId].pc = "sendFromPool"
    /\ jobs' = [jobs EXCEPT ![txId].pc = "hung",
                            ![txId].signature = signature]
    /\ UNCHANGED <<poolKeypair, zk_proofs, transactions>>

\* sendRawTransaction returns a signature: the transfer is submitted.
SendRawTransaction(txId, signature) ==
    /\ txId \in DOMAIN jobs
    /\ jobs[txId].pc = "sendFromPool"
    /\ jobs' = [jobs EXCEPT ![txId].pc = "confirmTransaction",
                            ![txId].signature = signature]
    /\ UNCHANGED <<poolKeypair, zk_proofs, transactions>>

\* A success path that also releases the reservation.
MarkConfirmedReleasing(txId) ==
    /\ txId \in DOMAIN jobs
    /\ jobs[txId].pc = "confirmTransaction"
    /\ transactions' = [transactions EXCEPT
                          ![txId].status = "CONFIRMED",
                          ![txId].tx_signature = jobs[txId].signature]
    /\ zk_proofs' = [zk_proofs EXCEPT
                       ![jobs[txId].zkProofId].spent = FSub(@, jobs[txId].amt)]
    /\ jobs' = [jobs EXCEPT ![txId].pc = "done"]
    /\ UNCHANGED poolKeypair

\* A success path that marks the row CONFIRMED without storing the signature.
MarkConfirmedStatusOnly(txId) ==
    /\ txId \in DOMAIN jobs
    /\ jobs[txId].pc = "confirmTransaction"
    /\ transactions' = [transactions EXCEPT ![txId].status = "CONFIRMED"]
    /\ jobs' = [jobs EXCEPT ![txId].pc = "done"]
    /\ UNCHANGED <<poolKeypair, zk_proofs>>

\* confirmTransaction returns or throws (the error is swallowed), sendFromPool
\* returns the signature and the job marks the row CONFIRMED.
MarkConfirmed(txId) ==
    /\ txId \in DOMAIN jobs
    /\ jobs[txId].pc = "confirmTransaction"
    /\ transactions' = [transactions EXCEPT
                          ![txId].status = "CONFIRMED",
                          ![txId].tx_signature = jobs[txId].signature]
    /\ jobs' = [jobs EXCEPT ![txId].pc = "done"]
    /\ UNCHANGED <<poolKeypair, zk_proofs>>

(* ------------------------- sqlite variant: Next ------------------------ *)

Lite == variant = "sqlite" /\ UNCHANGED <<variant, pgVars>>

GenerateReq ==
    /\ Lite
    /\ \E w \in Wallets \cup {Missing}, id \in Ids, n \in SecretNotes :
           Generate(w, id, n)

DepositReq ==
    /\ Lite
    /\ \E w \in Wallets \cup {Missing}, id \in Ids, a \in DepositAmounts :
           Deposit(w, id, a, "dsig")

WithdrawalsReq ==
    /\ Lite
    /\ \E id \in Ids, n \in Notes, a \in WithdrawAmounts, r \in Recipients :
           Withdrawals(id, n, a, r)

SendFails == Lite /\ \E txId \in 1..MaxTx : SendFromPoolThrows(txId)

SendSubmits ==
    Lite /\ \E txId \in 1..MaxTx, s \in Sigs : SendRawTransaction(txId, s)

SendReturns == Lite /\ \E txId \in 1..MaxTx : MarkConfirmed(txId)

NextLite ==
    \/ GenerateReq
    \/ DepositReq
    \/ WithdrawalsReq
    \/ SendFails
    \/ SendSubmits
    \/ SendReturns

SpecLite == InitLite /\ [][NextLite]_vars

(* ----------------- sqlite variant: settlement with faults --------------- *)
(* The settlement job when the network cannot confirm a submitted transfer  *)
(* and when the store rejects the UPDATE that marks the row CONFIRMED.      *)

\* confirmTransaction throws (timeout, expired blockhash, RPC error): the
\* catch inside sendFromPool logs a warning and swallows the error.
ConfirmTransactionThrows(txId) ==
    /\ txId \in DOMAIN jobs
    /\ jobs[txId].pc = "confirmTransaction"
    /\ jobs' = [jobs EXCEPT ![txId].pc = "confirmSwallowed"]
    /\ UNCHANGED <<poolKeypair, zk_proofs, transactions>>

\* return signature after the swallowed error; the job marks the row
\* CONFIRMED.
MarkUnconfirmed(txId) ==
    /\ txId \in DOMAIN jobs
    /\ jobs[txId].pc = "confirmSwallowed"
    /\ transactions' = [transactions EXCEPT
                          ![txId].status = "CONFIRMED",
                          ![txId].tx_signature = jobs[txId].signature]
    /\ jobs' = [jobs EXCEPT ![txId].pc = "done"]
    /\ UNCHANGED <<poolKeypair, zk_proofs>>

\* The UPDATE ... CONFIRMED throws after sendFromPool returned the signature
\* (the statement is inside the same try): the job's catch runs tx2().
UpdateConfirmedThrows(txId) ==
    /\ txId \in DOMAIN jobs
    /\ jobs[txId].pc \in {"confirmTransaction", "confirmSwallowed"}
    /\ Compensate(txId)
    /\ jobs' = [jobs EXCEPT ![txId].pc = "done"]
    /\ UNCHANGED poolKeypair

ConfirmFails == Lite /\ \E txId \in 1..MaxTx : ConfirmTransactionThrows(txId)

SendReturnsUnconfirmed == Lite /\ \E txId \in 1..MaxTx : MarkUnconfirmed(txId)

StoreFails == Lite /\ \E txId \in 1..MaxTx : UpdateConfirmedThrows(txId)

NextFaults ==
    \/ GenerateReq
    \/ DepositReq
    \/ WithdrawalsReq
    \/ SendFails
    \/ SendSubmits
    \/ SendReturns
    \/ ConfirmFails
    \/ SendReturnsUnconfirmed
    \/ StoreFails

SpecFaults == InitLite /\ [][NextFaults]_vars

(* ------------------- sqlite variant: fair settlement ------------------- *)
(* The process does not crash and every await of the settlement job        *)
(* (getLatestBlockhash, sendRawTransaction, confirmTransaction) eventually *)
(* returns or throws: the job of each withdrawal takes its next step.      *)

\* The next step of the settlement job of one withdrawal.
SettlementJob(txId) ==
    /\ Lite
    /\ \/ SendFromPoolThrows(txId)
       \/ \E s \in Sigs : SendRawTransaction(txId, s)
       \/ MarkConfirmed(txId)
       \/ ConfirmTransactionThrows(txId)
       \/ MarkUnconfirmed(txId)
       \/ UpdateConfirmedThrows(txId)

Fairness == \A txId \in 1..MaxTx : WF_vars(SettlementJob(txId))

SpecFair == InitLite /\ [][NextFaults]_vars /\ Fairness

(* --------------------- sqlite variant: process crash -------------------- *)
(* The tables are on disk; the settlement jobs are promises of the process. *)

Unfinished == {txId \in DOMAIN jobs :
                  jobs[txId].pc \in {"sendFromPool", "confirmTransaction"}}

\* The process dies and is started again: every unfinished settlement job is
\* gone, the tables and the pool keypair are as before.
Crash ==
    /\ Lite
    /\ Unfinished # {}
    /\ jobs' = [txId \in DOMAIN jobs |->
                   IF txId \in Unfinished
                   THEN [jobs[txId] EXCEPT !.pc = "lost"]
                   ELSE jobs[txId]]
    /\ UNCHANGED <<poolKeypair, zk_proofs, transactions>>

NextCrash ==
    \/ GenerateReq
    \/ DepositReq
    \/ WithdrawalsReq
    \/ SendFails
    \/ SendSubmits
    \/ SendReturns
    \/ Crash

SpecCrash == InitLite /\ [][NextCrash]_vars

(* ------------------- sqlite variant: the event loop --------------------- *)
(* POST /api/withdrawals statement by statement: the callback runs the      *)
(* checks, then tx() and res.json.  Node runs a callback to its first await *)
(* or its return before it starts another one, and the handler has no await *)
(* between the SELECT and tx(): nothing else runs while a handler is        *)
(* between the two.                                                         *)

\* A handler has passed the balance check and has not yet called tx().
Running == \E c \in Clients : client[c].pc = "checked"

LoopVars == variant = "sqlite" /\ UNCHANGED <<variant, pg_proofs, zk_transfers>>

\* The request of connection c has passed every check, on the row it read.
Checked(c, zkProofId, note, amount, recipient) ==
    /\ client[c].pc = "idle"
    /\ Len(transactions) < MaxTx
    /\ WithdrawalsResponse(zkProofId, note, amount, recipient).status = 200
    /\ client' = [client EXCEPT ![c] =
                    [pc |-> "checked", zkProofId |-> zkProofId, note |-> note,
                     amt |-> amount, recipient |-> recipient,
                     proof |-> zk_proofs[zkProofId]]]
    /\ UNCHANGED liteVars

\* A handler that starts although another one is between its check and its
\* reservation, as if the handler awaited between the two.
WithdrawalsCheckInterleaved(c, zkProofId, note, amount, recipient) ==
    Checked(c, zkProofId, note, amount, recipient)

\* The handler from its first statement to the balance check, for a request
\* that passes (one that fails is answered and changes nothing).
WithdrawalsCheck(c, zkProofId, note, amount, recipient) ==
    /\ ~Running
    /\ Checked(c, zkProofId, note, amount, recipient)

\* tx(), res.json and the start of the settlement job.
WithdrawalsReserve(c) ==
    /\ client[c].pc = "checked"
    /\ LET l == client[c]
       IN  /\ Reserve(l.zkProofId, l.amt, l.recipient)
           /\ jobs' = (Len(transactions) + 1 :>
                          [zkProofId |-> l.zkProofId, amt |-> l.amt,
                           recipient |-> l.recipient, proof |-> l.proof,
                           signature |-> NULL, pc |-> "sendFromPool"]) @@ jobs
    /\ client' = [client EXCEPT ![c] = Idle]
    /\ UNCHANGED poolKeypair

LoopCheck ==
    /\ LoopVars
    /\ \E c \in Clients, id \in Ids, n \in Notes, a \in WithdrawAmounts,
          r \in Recipients :
           WithdrawalsCheck(c, id, n, a, r)

LoopReserve == LoopVars /\ \E c \in Clients : WithdrawalsReserve(c)

LoopGenerate == ~Running /\ GenerateReq

LoopDeposit == ~Running /\ DepositReq

LoopSendFails == ~Running /\ SendFails

LoopSendSubmits == ~Running /\ SendSubmits

LoopSendReturns == ~Running /\ SendReturns

NextLoop ==
    \/ LoopGenerate
    \/ LoopDeposit
    \/ LoopCheck
    \/ LoopReserve
    \/ LoopSendFails
    \/ LoopSendSubmits
    \/ LoopSendReturns

SpecLoop == InitLite /\ [][NextLoop]_vars

(* ------------------------------ pg variant ----------------------------- *)
(* A request holds a pooled connection.  BEGIN; SELECT ... FOR UPDATE takes *)
(* the row lock (or waits for its holder) and reads the row; every later    *)
(* statement of the handler runs under that lock and becomes visible at     *)
(* COMMIT.  A request is therefore two steps: Begin (validate, lock, read)  *)
(* and Commit (decide on what was read, write, COMMIT or ROLLBACK).         *)

\* sha256Hex(str)
sha256Hex(str) == <<"sha256", str>>

\* commitHash.slice(0, 16).toUpperCase() behind "ZKP-": 16 of the 64 hex
\* digits of the digest, so distinct commitments can share an identifier.
Slice16(commitHash) ==
    IF commitHash \in {sha256Hex(<<"w1", ":", sha256Hex("n1")>>),
                       sha256Hex(<<"w2", ":", sha256Hex("n2")>>)}
    THEN "ZKP-A" ELSE "ZKP-B"

\* zkProofId of POST /api/zkproofs/generate
ZkProofId(walletPubkey, noteHash) ==
    Slice16(sha256Hex(<<walletPubkey, ":", noteHash>>))

\* A value stored in a NUMERIC(36,9) column: rounded to 9 decimals, half away
\* from zero.
Round9(x) ==
    LET m == Abs(x)
        q == ((2 * m + NanoUnits) \div (2 * NanoUnits)) * NanoUnits
    IN  IF x < 0 THEN -q ELSE q

\* toNumber(val): parseFloat of the column's decimal text
toNumber(val) == FRound(val)

RowLocked(zkProofId) ==
    \E c \in Clients : client[c].pc = "locked" /\ client[c].zkProofId = zkProofId

InFlight == Cardinality({c \in Clients : client[c].pc = "locked"})

\* POST /api/zkproofs/generate: the response
PgGenerateResponse(walletPubkey, note) ==
    IF walletPubkey = Missing
    THEN Reply(400, "walletPubkey is required")
    ELSE [status |-> 200,
          zkProofId |-> ZkProofId(walletPubkey, sha256Hex(note)),
          note |-> note]

\* POST /api/zkproofs/generate: INSERT ... ON CONFLICT (zk_proof_id) DO NOTHING
PgGenerate(walletPubkey, note) ==
    LET zkProofId == ZkProofId(walletPubkey, sha256Hex(note))
    IN  IF walletPubkey # Missing /\ zkProofId \notin DOMAIN pg_proofs
        THEN /\ pg_proofs' = (zkProofId :>
                                [wallet_pubkey |-> walletPubkey,
                                 note_hash |-> sha256Hex(note),
                                 total_amount |-> 0, spent_amount |-> 0])
                             @@ pg_proofs
             /\ UNCHANGED <<zk_transfers, client>>
        ELSE UNCHANGED pgVars

\* BEGIN; SELECT ... FOR UPDATE: take the row lock and read the row.
LockAndRead(c, op, walletPubkey, zkProofId, note, amt, recipient, txSignature) ==
    /\ ~RowLocked(zkProofId)
    /\ Len(zk_transfers) + InFlight < MaxTx
    /\ client' = [client EXCEPT ![c] =
                    [pc |-> "locked", op |-> op, walletPubkey |-> walletPubkey,
                     zkProofId |-> zkProofId, note |-> note, amt |-> amt,
                     recipient |-> recipient, txSignature |-> txSignature,
                     proof |-> pg_proofs[zkProofId]]]
    /\ UNCHANGED <<pg_proofs, zk_transfers>>

\* POST /api/deposits: the response of a request that ends before it locks
\* a row (status 0: none yet, the request goes on)
PgDepositBeginResponse(walletPubkey, zkProofId, amt) ==
    IF walletPubkey = Missing \/ zkProofId = Missing \/ amt = 0 \/ amt <= 0
    THEN Reply(400, "walletPubkey, zkProofId and positive amount are required")
    ELSE IF zkProofId \notin DOMAIN pg_proofs
    THEN Reply(404, "zk_proof not found")
    ELSE [status |-> 0]

\* POST /api/deposits, to the row lock
PgDepositBegin(c, walletPubkey, zkProofId, amt, txSignature) ==
    /\ client[c].pc = "idle"
    /\ IF PgDepositBeginResponse(walletPubkey, zkProofId, amt).status = 0
       THEN LockAndRead(c, "deposit", walletPubkey, zkProofId, NULL, amt,
                        NULL, txSignature)
       ELSE UNCHANGED pgVars

\* POST /api/deposits: the response of a request that holds the row lock
PgDepositCommitResponse(c) ==
    LET l == client[c]
        total == toNumber(Round9(pg_proofs[l.zkProofId].total_amount + l.amt))
        spent == toNumber(pg_proofs[l.zkProofId].spent_amount)
    IN  IF l.proof.wallet_pubkey # l.walletPubkey
        THEN Reply(400, "walletPubkey does not own this zk_proof_id")
        ELSE [status |-> 200, ok |-> TRUE, zkProofId |-> l.zkProofId,
              balance |-> FSub(total, spent), total |-> total, spent |-> spent]

\* POST /api/deposits, from the row lock to COMMIT or ROLLBACK
PgDepositCommit(c) ==
    /\ client[c].pc = "locked"
    /\ client[c].op = "deposit"
    /\ client' = [client EXCEPT ![c] = Idle]
    /\ IF PgDepositCommitResponse(c).status = 200
       THEN LET l == client[c]
            IN  /\ pg_proofs' = [pg_proofs EXCEPT ![l.zkProofId].total_amount =
                                    Round9(@ + l.amt)]
                /\ zk_transfers' = Append(zk_transfers,
                       [zk_proof_id |-> l.zkProofId,
                        wallet_pubkey |-> l.walletPubkey,
                        direction |-> "DEPOSIT", amount |-> Round9(l.amt),
                        recipient |-> NULL, tx_signature |-> l.txSignature])
       ELSE UNCHANGED <<pg_proofs, zk_transfers>>

\* POST /api/withdrawals: the response of a request that ends before it
\* locks a row
PgWithdrawBeginResponse(zkProofId, note, amt, recipient) ==
    IF zkProofId = Missing \/ note = Missing \/ recipient = Missing
       \/ amt = 0 \/ amt <= 0
    THEN Reply(400, "zkProofId, note, recipient and positive amount are required")
    ELSE IF zkProofId \notin DOMAIN pg_proofs
    THEN Reply(404, "zk_proof not found")
    ELSE [status |-> 0]

\* POST /api/withdrawals, to the row lock
PgWithdrawBegin(c, zkProofId, note, amt, recipient) ==
    /\ client[c].pc = "idle"
    /\ IF PgWithdrawBeginResponse(zkProofId, note, amt, recipient).status = 0
       THEN LockAndRead(c, "withdraw", NULL, zkProofId, note, amt, recipient,
                        NULL)
       ELSE UNCHANGED pgVars

\* const available = total - spent, on the row read under the lock
Available(proof) == FSub(toNumber(proof.total_amount), toNumber(proof.spent_amount))

\* POST /api/withdrawals: the response of a request that holds the row lock
PgWithdrawCommitResponse(c) ==
    LET l == client[c]
        newTotal == toNumber(pg_proofs[l.zkProofId].total_amount)
        newSpent == toNumber(Round9(pg_proofs[l.zkProofId].spent_amount + l.amt))
    IN  IF l.proof.note_hash # sha256Hex(l.note)
        THEN Reply(400, "invalid note for this zk_proof_id")
        ELSE IF Available(l.proof) < l.amt
        THEN Reply(400, "insufficient balance")
        ELSE [status |-> 200, ok |-> TRUE, zkProofId |-> l.zkProofId,
              balance |-> FSub(newTotal, newSpent), total |-> newTotal,
              spent |-> newSpent]

\* POST /api/withdrawals, from the row lock to COMMIT or ROLLBACK
PgWithdrawCommit(c) ==
    /\ client[c].pc = "locked"
    /\ client[c].op = "withdraw"
    /\ client' = [client EXCEPT ![c] = Idle]
    /\ IF PgWithdrawCommitResponse(c).status = 200
       THEN LET l == client[c]
            IN  /\ pg_proofs' = [pg_proofs EXCEPT ![l.zkProofId].spent_amount =
                                    Round9(@ + l.amt)]
                /\ zk_transfers' = Append(zk_transfers,
                       [zk_proof_id |-> l.zkProofId,
                        wallet_pubkey |-> l.proof.wallet_pubkey,
                        direction |-> "WITHDRAW", amount |-> Round9(l.amt),
                        recipient |-> l.recipient,
                        tx_signature |-> l.txSignature])
       ELSE UNCHANGED <<pg_proofs, zk_transfers>>

(* --------------------------- pg variant: Next -------------------------- *)

Pg == variant = "pg" /\ UNCHANGED <<variant, liteVars>>

PgGenerateReq ==
    /\ Pg
    /\ \E w \in Wallets \cup {Missing}, n \in Notes : PgGenerate(w, n)

PgDepositBeginReq ==
    /\ Pg
    /\ \E c \in Clients, w \in Wallets \cup {Missing}, id \in Ids,
          a \in DepositAmounts :
           PgDepositBegin(c, w, id, a, "dsig")

PgDepositCommitStep == Pg /\ \E c \in Clients : PgDepositCommit(c)

PgWithdrawBeginReq ==
    /\ Pg
    /\ \E c \in Clients, id \in Ids, n \in Notes, a \in WithdrawAmounts,
          r \in Recipients :
           PgWithdrawBegin(c, id, n, a, r)

PgWithdrawCommitStep == Pg /\ \E c \in Clients : PgWithdrawCommit(c)

NextPg ==
    \/ PgGenerateReq
    \/ PgDepositBeginReq
    \/ PgDepositCommitStep
    \/ PgWithdrawBeginReq
    \/ PgWithdrawCommitStep

SpecPg == InitPg /\ [][NextPg]_vars

(* ----------------------------- both variants --------------------------- *)

Init == InitLite \/ InitPg

Next == NextLite \/ NextPg

Spec == Init /\ [][Next]_vars

(* ------------------------------- history ------------------------------- *)

\* ORDER BY ... DESC: the members of a set of row numbers, largest first.
RECURSIVE Descending(_)
Descending(S) ==
    IF S = {} THEN <<>>
    ELSE LET m == CHOOSE x \in S : \A y \in S : y <= x
         IN  <<m>> \o Descending(S \ {m})

\* GET /api/history of the sqlite variant: the response.  Rows are stamped
\* by the handler that inserts them, so the order by time, then id, is the
\* order of the ids.
HistoryResponse(wallet) ==
    IF wallet = Missing
    THEN Reply(400, "wallet is required")
    ELSE LET rows == Descending({id \in DOMAIN transactions :
                                    transactions[id].wallet_pubkey = wallet})
         IN  [status |-> 200,
              history |-> [k \in DOMAIN rows |->
                              [id |-> rows[k],
                               walletPubkey |-> transactions[rows[k]].wallet_pubkey,
                               zkProofId |-> transactions[rows[k]].zk_proof_id,
                               type |-> transactions[rows[k]].type,
                               amount |-> transactions[rows[k]].amount,
                               recipient |-> transactions[rows[k]].recipient,
                               txSignature |-> transactions[rows[k]].tx_signature,
                               status |-> transactions[rows[k]].status]]]

\* GET /api/history of the pg variant: the response.  The log is in the
\* order of the transactions' timestamps.
PgHistoryResponse(wallet) ==
    IF wallet = Missing
    THEN Reply(400, "wallet query param is required")
    ELSE LET rows == Descending({i \in DOMAIN zk_transfers :
                                    zk_transfers[i].wallet_pubkey = wallet})
             page == SubSeq(rows, 1, IF Len(rows) < PageSize THEN Len(rows)
                                     ELSE PageSize)
         IN  [status |-> 200,
              history |-> [k \in DOMAIN page |->
                              [zkProofId |-> zk_transfers[page[k]].zk_proof_id,
                               type |-> zk_transfers[page[k]].direction,
                               amount |-> toNumber(zk_transfers[page[k]].amount),
                               recipient |-> zk_transfers[page[k]].recipient,
                               txSignature |-> zk_transfers[page[k]].tx_signature,
                               createdAt |-> page[k]]]]

\* GET /api/history: a read, in either variant.
HistoryReq ==
    /\ Lite
    /\ \E w \in Wallets \cup {Missing} :
           /\ HistoryResponse(w).status \in {200, 400}
           /\ UNCHANGED liteVars

PgHistoryReq ==
    /\ Pg
    /\ \E w \in Wallets \cup {Missing} :
           /\ PgHistoryResponse(w).status \in {200, 400}
           /\ UNCHANGED pgVars

NextHistory ==
    \/ NextLite
    \/ NextPg
    \/ HistoryReq
    \/ PgHistoryReq

SpecHistory == Init /\ [][NextHistory]_vars

(* ------------------------------- claims -------------------------------- *)

Accepted(response) == response.status = 200

\* The notes whose digest is the stored note_hash of an sqlite identifier.
RightNotes(zkProofId) ==
    {n \in Notes : sha256(n) = zk_proofs[zkProofId].note_hash}

\* C1: for every identifier, in every reachable state of either variant,
\* 0 <= withdrawn <= deposited.
C1_WithdrawnWithinDeposited ==
    /\ \A id \in DOMAIN zk_proofs :
           /\ zk_proofs[id].spent <= zk_proofs[id].total
           /\ zk_proofs[id].spent >= 0
    /\ \A id \in DOMAIN pg_proofs :
           /\ pg_proofs[id].spent_amount <= pg_proofs[id].total_amount
           /\ pg_proofs[id].spent_amount >= 0

\* The last row of the log is a withdrawal of identifier id that was just
\* reserved: it is PENDING and the identifier's row is what that request
\* read, plus its reservation.
JustReserved(txId, id) ==
    /\ txId = Len(transactions)
    /\ txId \in DOMAIN jobs
    /\ jobs[txId].zkProofId = id
    /\ transactions[txId].status = "PENDING"
    /\ zk_proofs[id].total = jobs[txId].proof.total
    /\ zk_proofs[id].spent = FAdd(jobs[txId].proof.spent, jobs[txId].amt)

\* C2: of two withdrawals with the correct note on one identifier, a1 <= B,
\* a2 <= B and a1 + a2 > B for the balance B, the one that comes second is
\* answered "Insufficient shielded balance".  In the sqlite variant handlers
\* run one after the other, so the second finds the first just reserved; in
\* the pg variant the second decides on the row it read under the row lock,
\* which is the committed row.
C2_SecondWithdrawalRejected ==
    /\ \A id \in DOMAIN zk_proofs, txId \in DOMAIN jobs :
           JustReserved(txId, id) =>
               LET B  == jobs[txId].proof.total - jobs[txId].proof.spent
                   a1 == jobs[txId].amt
               IN  \A a2 \in WithdrawAmounts, n \in RightNotes(id),
                      r \in Recipients :
                       (a2 > 0 /\ a1 <= B /\ a2 <= B /\ a1 + a2 > B) =>
                           WithdrawalsResponse(id, n, a2, r)
                               = Reply(400, "Insufficient shielded balance")
    /\ \A c \in Clients :
           client[c].pc = "locked" =>
               client[c].proof = pg_proofs[client[c].zkProofId]

\* C3: a withdrawal initiation with the correct note whose amount is greater
\* than deposited - withdrawn is answered with the insufficient-balance
\* error (a request that is not accepted writes nothing).
C3_OverdrawRejected ==
    /\ \A id \in DOMAIN zk_proofs :
           \A n \in RightNotes(id), a \in WithdrawAmounts, r \in Recipients :
               (poolKeypair /\ a > zk_proofs[id].total - zk_proofs[id].spent) =>
                   WithdrawalsResponse(id, n, a, r)
                       = Reply(400, "Insufficient shielded balance")
    /\ \A c \in Clients :
           (/\ client[c].pc = "locked"
            /\ client[c].op = "withdraw"
            /\ client[c].proof.note_hash = sha256Hex(client[c].note)
            /\ client[c].amt > pg_proofs[client[c].zkProofId].total_amount
                                - pg_proofs[client[c].zkProofId].spent_amount) =>
               PgWithdrawCommitResponse(c) = Reply(400, "insufficient balance")

\* The notes whose digest is not the stored note_hash of an sqlite identifier.
WrongNotes(zkProofId) == Notes \ RightNotes(zkProofId)

InvalidNote == Reply(403, "Invalid secret_note for this zk_proof_id")

PgInvalidNote == Reply(400, "invalid note for this zk_proof_id")

\* A pg withdrawal that holds the row lock and carries a wrong note.
PgWrongNote(c) ==
    /\ client[c].pc = "locked"
    /\ client[c].op = "withdraw"
    /\ client[c].proof.note_hash # sha256Hex(client[c].note)

\* C4 as stated: on a server that pays out, a withdrawal initiation against
\* an existing identifier with a wrong note is answered with the invalid-note
\* error for every amount and recipient.
C4_WrongNoteEveryAmount ==
    \A id \in DOMAIN zk_proofs :
        \A n \in WrongNotes(id), a \in WithdrawAmounts, r \in Recipients :
            poolKeypair => WithdrawalsResponse(id, n, a, r) = InvalidNote

\* C4, the responses: with the pool keypair loaded and a non-zero amount
\* (sqlite), or a positive amount (pg), a wrong note against an existing
\* identifier is answered with the invalid-note error.
C4_WrongNoteResponse ==
    /\ \A id \in DOMAIN zk_proofs :
           \A n \in WrongNotes(id), a \in WithdrawAmounts, r \in Recipients :
               (poolKeypair /\ a # 0) =>
                   WithdrawalsResponse(id, n, a, r) = InvalidNote
    /\ \A id \in DOMAIN pg_proofs :
           \A n \in Notes, a \in WithdrawAmounts, r \in Recipients :
               (a > 0 /\ sha256Hex(n) # pg_proofs[id].note_hash) =>
                   PgWithdrawBeginResponse(id, n, a, r).status = 0
    /\ \A c \in Clients :
           PgWrongNote(c) => PgWithdrawCommitResponse(c) = PgInvalidNote

\* C4, the writes: a step that changes the accumulators or the log is not a
\* withdrawal with a wrong note, whatever its amount and recipient.
C4_WrongNoteNoWrite ==
    /\ <<zk_proofs, transactions>>' # <<zk_proofs, transactions>> =>
           \A id \in DOMAIN zk_proofs :
               \A n \in WrongNotes(id), a \in WithdrawAmounts, r \in Recipients :
                   ~Withdrawals(id, n, a, r)
    /\ <<pg_proofs, zk_transfers>>' # <<pg_proofs, zk_transfers>> =>
           \A c \in Clients : ~(PgWrongNote(c) /\ PgWithdrawCommit(c))

\* C4 (amended): a withdrawal initiation against an existing identifier with
\* a secret note whose digest differs from the stored noteHash, whose amount
\* passes the request validation that runs first, is answered with the
\* invalid-note error; with any amount it leaves deposited, withdrawn and
\* the log unchanged.
C4_WrongNote == []C4_WrongNoteResponse /\ [][C4_WrongNoteNoWrite]_vars

\* C4 witness: an identifier holds funds and a request with a wrong note is
\* answered with the invalid-note error.
C4_Witness ==
    \E id \in DOMAIN zk_proofs :
        /\ zk_proofs[id].total > zk_proofs[id].spent
        /\ \E n \in WrongNotes(id), r \in Recipients :
               WithdrawalsResponse(id, n, 1, r) = InvalidNote

\* C5: a step that turns a PENDING withdrawal FAILED decreases withdrawn by
\* exactly its amount and no other step decreases withdrawn; when the
\* identifier's row is still what the reservation left, withdrawn is back at
\* the value the request read before reserving.
C5_ExactCompensation ==
    [][/\ \A txId \in DOMAIN transactions :
              LET id == transactions[txId].zk_proof_id
                  a  == transactions[txId].amount
              IN  (/\ transactions[txId].status = "PENDING"
                   /\ transactions'[txId].status = "FAILED") =>
                      /\ zk_proofs'[id].spent = zk_proofs[id].spent - a
                      /\ (zk_proofs[id].spent = FAdd(jobs[txId].proof.spent, a)
                            => zk_proofs'[id].spent = jobs[txId].proof.spent)
       /\ \A id \in DOMAIN zk_proofs :
              zk_proofs'[id].spent < zk_proofs[id].spent =>
                  \E txId \in DOMAIN transactions :
                      /\ transactions[txId].zk_proof_id = id
                      /\ transactions[txId].status = "PENDING"
                      /\ transactions'[txId].status = "FAILED"
      ]_vars

\* C6: the step that ends a job whose sendRawTransaction returned a signature
\* marks its PENDING row CONFIRMED with that signature and changes no
\* accumulator.
C6_ConfirmKeepsReservation ==
    [][\A txId \in DOMAIN jobs :
           (/\ jobs[txId].pc = "confirmTransaction"
            /\ jobs'[txId].pc = "done") =>
               /\ transactions[txId].status = "PENDING"
               /\ transactions'[txId].status = "CONFIRMED"
               /\ transactions'[txId].tx_signature = jobs[txId].signature
               /\ jobs[txId].signature \in Sigs
               /\ zk_proofs' = zk_proofs
      ]_vars

\* C6 witness: a withdrawal is CONFIRMED and carries a network signature.
C6_Witness ==
    \E txId \in DOMAIN transactions :
        /\ transactions[txId].type = "WITHDRAW"
        /\ transactions[txId].status = "CONFIRMED"
        /\ transactions[txId].tx_signature \in Sigs

\* C7: rows are never deleted; a withdrawal row is inserted PENDING; a PENDING
\* row may turn CONFIRMED or FAILED; a CONFIRMED or FAILED row never changes.
C7_StatusChangesOnce ==
    [][/\ Len(transactions') >= Len(transactions)
       /\ \A txId \in DOMAIN transactions :
              \/ transactions'[txId] = transactions[txId]
              \/ /\ transactions[txId].status = "PENDING"
                 /\ transactions'[txId].status \in {"CONFIRMED", "FAILED"}
       /\ \A txId \in DOMAIN transactions' \ DOMAIN transactions :
              transactions'[txId].type = "WITHDRAW" =>
                  transactions'[txId].status = "PENDING"
      ]_vars

\* C7 witness: one withdrawal ended CONFIRMED and another FAILED.
C7_Witness ==
    \E t1, t2 \in DOMAIN transactions :
        /\ transactions[t1].type = "WITHDRAW"
        /\ transactions[t1].status = "CONFIRMED"
        /\ transactions[t2].status = "FAILED"

\* C8: a step that inserts a withdrawal row is an accepted request answered
\* {status: PENDING, id} and nothing else; id names the inserted row, that row
\* is PENDING without signature, the reservation is in the accumulator, and
\* the settlement job of that row has neither a signature nor an outcome.
C8_PendingBeforeSettlement ==
    [][LET txId == Len(transactions')
       IN  (/\ txId = Len(transactions) + 1
            /\ transactions'[txId].type = "WITHDRAW") =>
               LET row == transactions'[txId]
                   id  == row.zk_proof_id
               IN  /\ RightNotes(id) # {}
                   /\ \A n \in RightNotes(id) :
                          LET response ==
                                  WithdrawalsResponse(id, n, row.amount,
                                                      row.recipient)
                          IN  /\ Accepted(response)
                              /\ Withdrawals(id, n, row.amount, row.recipient)
                              /\ DOMAIN response = {"status", "body", "id"}
                              /\ response.body = "PENDING"
                              /\ response.id = txId
                   /\ row.status = "PENDING"
                   /\ row.tx_signature = NULL
                   /\ zk_proofs'[id].spent = FAdd(zk_proofs[id].spent, row.amount)
                   /\ zk_proofs'[id].total = zk_proofs[id].total
                   /\ jobs'[txId].pc = "sendFromPool"
                   /\ jobs'[txId].signature = NULL
      ]_vars

\* C8 witness: a withdrawal was answered and its settlement has not resolved.
C8_Witness ==
    \E txId \in DOMAIN jobs :
        /\ jobs[txId].pc = "sendFromPool"
        /\ transactions[txId].status = "PENDING"
        /\ zk_proofs[jobs[txId].zkProofId].spent >= jobs[txId].amt

\* C9: an issuance whose generated identifier is already in the ledger is
\* not answered with an identifier and a note.
C9_CollisionRejected ==
    /\ \A w \in Wallets, id \in DOMAIN zk_proofs, n \in SecretNotes :
           ~Accepted(GenerateResponse(w, id, n))
    /\ \A w \in Wallets, n \in Notes :
           ZkProofId(w, sha256Hex(n)) \in DOMAIN pg_proofs =>
               ~Accepted(PgGenerateResponse(w, n))

\* C10: a step changes deposited only by appending exactly one DEPOSIT row,
\* status CONFIRMED, whose amount is the increase of deposited, and every
\* appended DEPOSIT row comes with that increase; withdrawn is unchanged.
C10_DepositAtomic ==
    [][/\ \A id \in DOMAIN zk_proofs :
              LET n == Len(transactions')
                  isDeposit ==
                      /\ n = Len(transactions) + 1
                      /\ transactions'[n].type = "DEPOSIT"
                      /\ transactions'[n].zk_proof_id = id
              IN  (zk_proofs'[id].total # zk_proofs[id].total \/ isDeposit) =>
                      /\ isDeposit
                      /\ transactions'[n].status = "CONFIRMED"
                      /\ zk_proofs'[id].total
                           = zk_proofs[id].total + transactions'[n].amount
                      /\ zk_proofs'[id].spent = zk_proofs[id].spent
       /\ \A id \in DOMAIN pg_proofs :
              LET n == Len(zk_transfers')
                  isDeposit ==
                      /\ n = Len(zk_transfers) + 1
                      /\ zk_transfers'[n].direction = "DEPOSIT"
                      /\ zk_transfers'[n].zk_proof_id = id
              IN  (pg_proofs'[id].total_amount # pg_proofs[id].total_amount
                   \/ isDeposit) =>
                      /\ isDeposit
                      /\ "status" \in DOMAIN zk_transfers'[n]
                      /\ zk_transfers'[n].status = "CONFIRMED"
                      /\ pg_proofs'[id].total_amount
                           = pg_proofs[id].total_amount + zk_transfers'[n].amount
                      /\ pg_proofs'[id].spent_amount = pg_proofs[id].spent_amount
      ]_vars

(* ------------------------------ claims C11.. --------------------------- *)

\* C11: a deposit of a positive amount naming an identifier that does not
\* exist is answered 404; one naming an existing identifier with a wallet
\* that is not its owner is answered with an error that is not the 404 of a
\* missing identifier.
C11_NotFoundVsOwnership ==
    /\ \A id \in Ids, w \in Wallets, a \in DepositAmounts :
           a > 0 =>
               LET response == DepositResponse(w, id, a, "dsig")
               IN  IF id \notin DOMAIN zk_proofs
                   THEN response.status = 404
                   ELSE zk_proofs[id].wallet_pubkey # w =>
                            /\ ~Accepted(response)
                            /\ response.status # 404
    /\ \A id \in Ids, w \in Wallets, a \in DepositAmounts :
           a > 0 =>
               LET response == PgDepositBeginResponse(w, id, a)
               IN  IF id \notin DOMAIN pg_proofs
                   THEN response.status = 404
                   ELSE response.status = 0
    /\ \A c \in Clients :
           (/\ client[c].pc = "locked"
            /\ client[c].op = "deposit"
            /\ client[c].proof.wallet_pubkey # client[c].walletPubkey) =>
               PgDepositCommitResponse(c)
                   = Reply(400, "walletPubkey does not own this zk_proof_id")

\* C12: a job whose confirmTransaction threw (no confirmation was obtained)
\* ends with its row FAILED and withdrawn decreased by the amount, never
\* with its row CONFIRMED.
C12_UnconfirmedIsFailure ==
    [][\A txId \in DOMAIN jobs :
           (/\ jobs[txId].pc = "confirmSwallowed"
            /\ jobs'[txId].pc = "done") =>
               /\ transactions'[txId].status = "FAILED"
               /\ zk_proofs'[jobs[txId].zkProofId].spent
                    = FSub(zk_proofs[jobs[txId].zkProofId].spent, jobs[txId].amt)
      ]_vars

\* C13 as stated: no step makes the withdrawn accumulator of an identifier
\* smaller.
C13_WithdrawnNeverDecreases ==
    [][/\ \A id \in DOMAIN zk_proofs :
              zk_proofs'[id].spent >= zk_proofs[id].spent
       /\ \A id \in DOMAIN pg_proofs :
              pg_proofs'[id].spent_amount >= pg_proofs[id].spent_amount
      ]_vars

\* C13 (amended): withdrawn of an identifier decreases only in the step that
\* turns one of its PENDING withdrawals FAILED, and then to withdrawn minus
\* that withdrawal's amount; deposits, initiations and successful settlements
\* never decrease it, and in the pg variant nothing does.
C13_DecreasesOnlyByCompensation ==
    [][/\ \A id \in DOMAIN zk_proofs :
              zk_proofs'[id].spent < zk_proofs[id].spent =>
                  \E txId \in DOMAIN transactions :
                      /\ transactions[txId].zk_proof_id = id
                      /\ transactions[txId].type = "WITHDRAW"
                      /\ transactions[txId].status = "PENDING"
                      /\ transactions'[txId].status = "FAILED"
                      /\ zk_proofs'[id].spent
                           = FSub(zk_proofs[id].spent, transactions[txId].amount)
       /\ \A id \in DOMAIN pg_proofs :
              pg_proofs'[id].spent_amount >= pg_proofs[id].spent_amount
      ]_vars

\* C13 witness: a withdrawal is FAILED and the withdrawn accumulator of its
\* identifier is below that withdrawal's amount: the reservation was taken
\* back.
C13_Witness ==
    \E txId \in DOMAIN transactions :
        /\ transactions[txId].status = "FAILED"
        /\ zk_proofs[transactions[txId].zk_proof_id].spent
             < transactions[txId].amount

\* The settlement job of withdrawal txId was lost in a crash.
Lost(txId) == txId \in DOMAIN jobs /\ jobs[txId].pc = "lost"

\* C14 as stated: a withdrawal whose settlement job was lost in a crash is
\* PENDING and the pool has submitted no transfer for it.
C14_LostNeverPaid ==
    \A txId \in DOMAIN jobs :
        Lost(txId) =>
            /\ transactions[txId].status = "PENDING"
            /\ jobs[txId].signature = NULL

\* C14, the state: a withdrawal whose job was lost is PENDING and its row
\* carries no signature.
C14_LostIsPending ==
    \A txId \in DOMAIN jobs :
        Lost(txId) =>
            /\ transactions[txId].status = "PENDING"
            /\ transactions[txId].tx_signature = NULL

\* C14, the steps: the row and the job of a lost withdrawal never change
\* again (the signature of a transfer submitted before the crash stays the
\* only trace of the payout), and withdrawn decreases only by compensating a
\* withdrawal whose job was not lost.
C14_LostIsFrozen ==
    /\ \A txId \in DOMAIN jobs :
           Lost(txId) =>
               /\ jobs'[txId] = jobs[txId]
               /\ transactions'[txId] = transactions[txId]
    /\ \A id \in DOMAIN zk_proofs :
           zk_proofs'[id].spent < zk_proofs[id].spent =>
               \E txId \in DOMAIN jobs :
                   /\ ~Lost(txId)
                   /\ jobs[txId].zkProofId = id
                   /\ transactions'[txId].status = "FAILED"

\* C14 (amended): after a crash between the reservation and the end of the
\* settlement step the withdrawal stays PENDING forever and is never
\* un-reserved; it has been paid out exactly if the pool had submitted the
\* transfer before the crash.
C14_CrashLeavesPending == []C14_LostIsPending /\ [][C14_LostIsFrozen]_vars

\* C14 witness: a job was lost after the pool submitted its transfer, and
\* the withdrawal is PENDING with its amount in withdrawn.
C14_Witness ==
    \E txId \in DOMAIN jobs :
        /\ Lost(txId)
        /\ jobs[txId].signature \in Sigs
        /\ transactions[txId].status = "PENDING"
        /\ zk_proofs[jobs[txId].zkProofId].spent >= jobs[txId].amt

\* The second of two concurrent requests: connection c2 is idle and its
\* request on the identifier of c1 passes every check on the current row.
SecondPasses(c1, c2, n, a, r) ==
    /\ c1 # c2
    /\ client[c1].pc = "checked"
    /\ client[c2].pc = "idle"
    /\ Len(transactions) < MaxTx
    /\ Accepted(WithdrawalsResponse(client[c1].zkProofId, n, a, r))

\* C15 as stated: while one withdrawal initiation is past its balance check
\* and has not committed its reservation, a second one on the same
\* identifier that passes the check on the same row can run its check too.
C15_BothPassCheck ==
    \A c1, c2 \in Clients, n \in Notes, a \in WithdrawAmounts, r \in Recipients :
        SecondPasses(c1, c2, n, a, r) =>
            ENABLED WithdrawalsCheck(c2, client[c1].zkProofId, n, a, r)

\* C15 (amended): in the sqlite variant at most one withdrawal initiation is
\* between its balance check and its reservation, and the row it checked is
\* still the stored row: concurrent initiations are served one after the
\* other and the second one's check sees the first one's reservation.
C15_CheckAndReserveNotInterleaved ==
    /\ Cardinality({c \in Clients : client[c].pc = "checked"}) <= 1
    /\ \A c \in Clients :
           client[c].pc = "checked" =>
               client[c].proof = zk_proofs[client[c].zkProofId]

\* C15 witness: one initiation is past its check, and a second one on the
\* same identifier is waiting, each within the balance and jointly above it.
C15_Witness ==
    \E c1, c2 \in Clients, n \in Notes, a \in WithdrawAmounts, r \in Recipients :
        /\ SecondPasses(c1, c2, n, a, r)
        /\ LET B == client[c1].proof.total - client[c1].proof.spent
           IN  /\ client[c1].amt <= B
               /\ a <= B
               /\ client[c1].amt + a > B

\* C16: the history of a wallet holds only transactions of identifiers the
\* wallet owns, newest first, and never more than PageSize entries.
C16_HistoryPage ==
    \A w \in Wallets :
        /\ LET h == HistoryResponse(w).history
           IN  /\ Len(h) <= PageSize
               /\ \A k \in DOMAIN h :
                      /\ h[k].walletPubkey = w
                      /\ zk_proofs[h[k].zkProofId].wallet_pubkey = w
                      /\ k < Len(h) => h[k].id > h[k + 1].id
        /\ LET h == PgHistoryResponse(w).history
           IN  /\ Len(h) <= PageSize
               /\ \A k \in DOMAIN h :
                      /\ pg_proofs[h[k].zkProofId].wallet_pubkey = w
                      /\ k < Len(h) => h[k].createdAt > h[k + 1].createdAt

\* The rows of the transaction log that belong to an identifier, by row id.
RowsOf(zkProofId) ==
    [k \in {i \in DOMAIN transactions :
                transactions[i].zk_proof_id = zkProofId} |-> transactions[k]]

\* C17: every step (a deposit, a withdrawal initiation, a settlement
\* resolution, a compensation, with or without faults) acts on one identifier
\* A: for every other identifier B the row of B in zk_proofs (deposited and
\* withdrawn totals included) and the transactions of B are the same before
\* and after the step.  Steps on A and steps on B therefore commute on B.
C17_OtherIdentifiersUnchanged ==
    [][\E a \in Ids :
          \A b \in DOMAIN zk_proofs \ {a} :
              /\ b \in DOMAIN zk_proofs'
              /\ zk_proofs'[b] = zk_proofs[b]
              /\ RowsOf(b)' = RowsOf(b)]_vars

\* Two identifiers with deposits, and a withdrawal of one of them that was
\* reserved and compensated.
C17_Witness ==
    \E a, b \in DOMAIN zk_proofs :
        /\ a # b
        /\ zk_proofs[b].total > 0
        /\ RowsOf(b) # <<>>
        /\ \E k \in DOMAIN RowsOf(a) :
               /\ transactions[k].type = "WITHDRAW"
               /\ transactions[k].status = "FAILED"

\* Number("Infinity"), Number(1e999): truthy, greater than 0 and greater
\* than every balance the ledger reaches.
Infinity == 2 ^ (MantBits + 10)

\* Number("abc"): the raw string is truthy, the number is neither > 0 nor
\* truthy.  A value below every amount has these outcomes in every test the
\* handlers make (!amount on the raw value, amt > 0, !amt || amt <= 0).
NaN == 0 - Infinity - 1

\* Amounts that are not a positive finite number.
NotPositiveFinite == {0, -1, NaN, Infinity}

\* A 400 for missing or malformed input.
ValidationError(response) ==
    /\ response.status = 400
    /\ response.error \in
           {"walletPubkey, zkProofId, amount, txSignature are required",
            "zkProofId, note, amount, recipient are required",
            "amount must be > 0",
            "walletPubkey, zkProofId and positive amount are required",
            "zkProofId, note, recipient and positive amount are required"}

\* C18: a deposit or a withdrawal that is valid but for its amount (the
\* identifier exists, the wallet owns it, the note is the issued one, the
\* pool is configured), with an amount that is zero, negative, NaN or
\* infinite, is answered with a ValidationError.  (The handlers write only on
\* the path of the success response, so a ValidationError changes nothing.)
C18_InvalidAmountRejected ==
    \A amount \in NotPositiveFinite :
        /\ \A id \in DOMAIN zk_proofs, sig \in Sigs :
               ValidationError(DepositResponse(zk_proofs[id].wallet_pubkey,
                                               id, amount, sig))
        /\ poolKeypair =>
               \A id \in DOMAIN zk_proofs, r \in Recipients :
                   \A note \in RightNotes(id) :
                       ValidationError(WithdrawalsResponse(id, note, amount, r))
        /\ \A id \in DOMAIN pg_proofs, r \in Recipients :
               /\ ValidationError(PgDepositBeginResponse(
                      pg_proofs[id].wallet_pubkey, id, amount))
               /\ \A note \in Notes :
                      ValidationError(PgWithdrawBeginResponse(id, note,
                                                              amount, r))

\* SELECT SUM(amount) over the rows S of the transactions table, added in
\* row order in floating point.
RECURSIVE SumAmounts(_)
SumAmounts(S) ==
    IF S = {} THEN 0
    ELSE LET k == CHOOSE i \in S : \A j \in S : j <= i
         IN  FAdd(SumAmounts(S \ {k}), transactions[k].amount)

\* SELECT SUM(amount) over the rows S of zk_transfers: NUMERIC, exact.
RECURSIVE PgSumAmounts(_)
PgSumAmounts(S) ==
    IF S = {} THEN 0
    ELSE LET k == CHOOSE i \in S : TRUE
         IN  PgSumAmounts(S \ {k}) + zk_transfers[k].amount

\* C19: for every identifier, deposited is the sum of the amounts of its
\* DEPOSIT transactions and withdrawn is the sum of the amounts of its
\* WITHDRAW transactions that are PENDING or CONFIRMED (the pg variant has no
\* status: every WITHDRAW row counts).
C19_TotalsAreSums ==
    /\ \A id \in DOMAIN zk_proofs :
           /\ zk_proofs[id].total =
                  SumAmounts({k \in DOMAIN transactions :
                                  /\ transactions[k].zk_proof_id = id
                                  /\ transactions[k].type = "DEPOSIT"})
           /\ zk_proofs[id].spent =
                  SumAmounts({k \in DOMAIN transactions :
                                  /\ transactions[k].zk_proof_id = id
                                  /\ transactions[k].type = "WITHDRAW"
                                  /\ transactions[k].status
                                         \in {"PENDING", "CONFIRMED"}})
    /\ \A id \in DOMAIN pg_proofs :
           /\ pg_proofs[id].total_amount =
                  PgSumAmounts({k \in DOMAIN zk_transfers :
                                    /\ zk_transfers[k].zk_proof_id = id
                                    /\ zk_transfers[k].direction = "DEPOSIT"})
           /\ pg_proofs[id].spent_amount =
                  PgSumAmounts({k \in DOMAIN zk_transfers :
                                    /\ zk_transfers[k].zk_proof_id = id
                                    /\ zk_transfers[k].direction = "WITHDRAW"})

\* C20: no withdrawal is both paid out and compensated: a withdrawal whose
\* row is FAILED (its amount was taken off withdrawn) is one for which
\* sendRawTransaction returned no signature, also when the UPDATE that marks
\* the row CONFIRMED fails after sendFromPool returned.
C20_NotPaidAndCompensated ==
    \A txId \in DOMAIN jobs :
        transactions[txId].status = "FAILED" => jobs[txId].signature = NULL

\* const lamports = Math.round(amountSol * LAMPORTS_PER_SOL): whole lamports,
\* halves rounded up, in model units.
Lamports(amountSol) ==
    ((2 * amountSol + NanoUnits) \div (2 * NanoUnits)) * NanoUnits

\* What the pool has transferred out for the withdrawals of an identifier:
\* the lamports of every job for which sendRawTransaction returned a
\* signature.
RECURSIVE SumLamports(_)
SumLamports(S) ==
    IF S = {} THEN 0
    ELSE LET k == CHOOSE i \in S : TRUE
         IN  SumLamports(S \ {k}) + Lamports(jobs[k].amt)

PoolPaid(zkProofId) ==
    SumLamports({txId \in DOMAIN jobs :
                    /\ jobs[txId].zkProofId = zkProofId
                    /\ jobs[txId].signature # NULL})

\* C21: for every identifier, the total the pool has transferred out for its
\* withdrawals is at most its deposited total.
C21_PaidWithinDeposited ==
    \A id \in DOMAIN zk_proofs : PoolPaid(id) <= zk_proofs[id].total

\* C22: when the process does not crash and every call of the settlement
\* client eventually returns or throws, every withdrawal that is PENDING
\* eventually becomes CONFIRMED or FAILED.
C22_PendingEventuallySettled ==
    \A txId \in 1..MaxTx :
        (/\ txId \in DOMAIN transactions
         /\ transactions[txId].type = "WITHDRAW"
         /\ transactions[txId].status = "PENDING")
            ~> (/\ txId \in DOMAIN transactions
                /\ transactions[txId].status \in {"CONFIRMED", "FAILED"})

\* Two withdrawals were PENDING and their jobs have ended, one CONFIRMED and
\* one FAILED.
C22_Witness ==
    \E t1, t2 \in DOMAIN jobs :
        /\ jobs[t1].pc = "done" /\ transactions[t1].status = "CONFIRMED"
        /\ jobs[t2].pc = "done" /\ transactions[t2].status = "FAILED"
        /\ \A txId \in DOMAIN jobs : jobs[txId].pc = "done"

==========================================================================
